---- MODULE Spec2Model ----
(***************************************************************************)
(* Model of the AS3 declaration synthesis of k8s-bigip-ctlr                *)
(* (pkg/agent/as3/as3Resource.go): TLS profile attachment                  *)
(* (processProfilesForAS3), WAF injection (processF5ResourcesForAS3) and    *)
(* declaration assembly (prepareAS3ResourceConfig).                        *)
(*                                                                         *)
(* The shared application (as3Application, a Go map from name to object)   *)
(* is a function whose domain is the set of names present.  Go maps are    *)
(* iterated in an unspecified order: every loop over a map takes its       *)
(* order as a nondeterministic choice.  Pointers to rules and actions are  *)
(* modelled by value: the one rule object both policies share              *)
(* (wafDisableRule) already carries a WAF action when it is scanned and    *)
(* exposure records never name it, so it is never written through.         *)
(*                                                                         *)
(* Three specifications share the operators:                               *)
(*   Spec     one whole pass of prepareAS3ResourceConfig, stage by stage;  *)
(*   SpecTLS  processProfilesForAS3 on every tree the base stage can       *)
(*            leave for two frontends;                                     *)
(*   SpecWAF  processF5ResourcesForAS3 on every pair of policies, run      *)
(*            again on its own output up to MaxPasses times with           *)
(*            am.IntF5Res unchanged.                                       *)
(* Functions of the package that are called here but defined elsewhere     *)
(* (updatePolicyWithWAF, updateVirtualToHTTPS, as3FormatedString,          *)
(* isDefaultAS3PartitionEmpty, the base stages) follow the design          *)
(* document.  The IRule and data-group stages write neither Services' TLS  *)
(* fields nor policy rules and are left out.                               *)
(***************************************************************************)
EXTENDS Integers, Sequences, FiniteSets, TLC

VARIABLES
    DEFAULT_PARTITION,  \* package variable read by generateAS3ResourceDeclaration
    RsMap,              \* am.Resources.RsMap : frontend name -> resource config
    IntF5Res,           \* am.IntF5Res : (group, record) -> F5Resources
    sharedApp,          \* the tenant application being built
    routeCfg,           \* the AS3Config handed to prepareAS3ResourceConfig
    result,             \* the AS3Config prepareAS3ResourceConfig returned
    pc,                 \* position of the pass
    pass,               \* number of WAF injection runs made on sharedApp
    preApp,             \* sharedApp as it was before the last stage ran
    isSecureWAF,        \* processF5ResourcesForAS3's local at its return
    isInsecureWAF,      \* processF5ResourcesForAS3's local at its return
    recOrder,           \* order in which the last WAF run ranged over am.IntF5Res
    profOrder,          \* per frontend, the order its TLS entries were processed in
    warnings            \* frontends log.Warningf was called for

vars == <<DEFAULT_PARTITION, RsMap, IntF5Res, sharedApp, routeCfg, result, pc, pass,
          preApp, isSecureWAF, isInsecureWAF, recOrder, profOrder, warnings>>

(***************************************************************************)
(* Bounds                                                                  *)
(***************************************************************************)
MaxRules == 2
MaxRecs == 2
MaxPasses == 2
MaxProfiles == 2
MaxOverrides == 2

(***************************************************************************)
(* Program constants                                                       *)
(***************************************************************************)
HTTP == "http"
HTTPS == "https"
HTTPANDS == "all"
OtherVirtual == "none"

SecurePolicyName == "openshift_secure_routes"
InsecurePolicyName == "openshift_insecure_routes"
WAFDisableRuleName == "openshift_route_waf_disable"

(***************************************************************************)
(* Generic helpers                                                         *)
(***************************************************************************)
Range(s) == {s[i] : i \in DOMAIN s}

SeqsUpTo(S, n) == UNION {[1..k -> S] : k \in 0..n}

\* every order in which a Go range loop may visit the elements of set S
Orderings(S) == {s \in [1..Cardinality(S) -> S] : Range(s) = S}

Has(app, name) == name \in DOMAIN app

Put(app, name, obj) == [n \in DOMAIN app \cup {name} |-> IF n = name THEN obj ELSE app[n]]

(***************************************************************************)
(* WAF injection: processF5ResourcesForAS3                                 *)
(***************************************************************************)
wafDisableAction == [Type |-> "waf", Event |-> "", Enabled |-> "false"]

wafDropAction == [Type |-> "drop", Event |-> "request", Enabled |-> "nil"]

wafEnableAction == [Type |-> "waf", Event |-> "", Enabled |-> "true"]

forwardAction == [Type |-> "forward", Event |-> "request", Enabled |-> "nil"]

wafDisableRule == [Name |-> WAFDisableRuleName, Actions |-> <<wafDropAction, wafDisableAction>>]

isWAFRule(rule) == \E i \in DOMAIN rule.Actions : rule.Actions[i].Type = "waf"

\* mutant: the scan does not look for a WAF action the rule already has
addWAFDisableAction_NoCheck(ep) ==
    [ep EXCEPT !.Rules =
        [i \in DOMAIN ep.Rules |-> [ep.Rules[i] EXCEPT !.Actions = Append(@, wafDisableAction)]]]

addWAFDisableAction(ep) ==
    [ep EXCEPT !.Rules =
        [i \in DOMAIN ep.Rules |->
            IF isWAFRule(ep.Rules[i])
            THEN ep.Rules[i]
            ELSE [ep.Rules[i] EXCEPT !.Actions = Append(@, wafDisableAction)]]]

\* the rule a record identifies gets a WAF-enable action; no such rule: nothing
updatePolicyWithWAF(ep, rec, res) ==
    [ep EXCEPT !.Rules =
        [i \in DOMAIN ep.Rules |->
            IF ep.Rules[i].Name = rec
            THEN [ep.Rules[i] EXCEPT !.Actions = Append(@, wafEnableAction)]
            ELSE ep.Rules[i]]]

\* sharedApp[name].(*as3EndpointPolicy): nil unless an endpoint policy is there
IsPolicy(app, name) == Has(app, name) /\ app[name].class = "Endpoint_Policy"

\* mutant: the policy is marked only when it holds the rule the record names
SecureCase_MarkIfFound(st, e) ==
    IF IsPolicy(st.app, SecurePolicyName)
       /\ \E i \in DOMAIN st.app[SecurePolicyName].Rules : st.app[SecurePolicyName].Rules[i].Name = e.rec
    THEN [st EXCEPT !.isSecureWAF = TRUE,
                    !.app[SecurePolicyName] = updatePolicyWithWAF(@, e.rec, e.res)]
    ELSE st

\* the secure half of the switch (case HTTPS, and case HTTPANDS before fallthrough)
SecureCase(st, e) ==
    IF IsPolicy(st.app, SecurePolicyName)
    THEN [st EXCEPT !.isSecureWAF = TRUE,
                    !.app[SecurePolicyName] = updatePolicyWithWAF(@, e.rec, e.res)]
    ELSE st

\* mutant: the insecure policy is marked only when it holds the rule the record names
InsecureCase_MarkIfFound(st, e) ==
    IF IsPolicy(st.app, InsecurePolicyName)
       /\ \E i \in DOMAIN st.app[InsecurePolicyName].Rules : st.app[InsecurePolicyName].Rules[i].Name = e.rec
    THEN [st EXCEPT !.isInsecureWAF = TRUE,
                    !.app[InsecurePolicyName] = updatePolicyWithWAF(@, e.rec, e.res)]
    ELSE st

\* case HTTP, also reached by fallthrough from case HTTPANDS
InsecureCase(st, e) ==
    IF IsPolicy(st.app, InsecurePolicyName)
    THEN [st EXCEPT !.isInsecureWAF = TRUE,
                    !.app[InsecurePolicyName] = updatePolicyWithWAF(@, e.rec, e.res)]
    ELSE st

\* mutant: case HTTPANDS without its fallthrough
WAFSwitch_NoFallthrough(st, e) ==
    CASE e.res.Virtual = HTTPS -> SecureCase(st, e)
      [] e.res.Virtual = HTTPANDS -> SecureCase(st, e)
      [] e.res.Virtual = HTTP -> InsecureCase(st, e)
      [] OTHER -> st

\* mutant: case HTTPS falls through to case HTTP as well
WAFSwitch_HTTPSBoth(st, e) ==
    CASE e.res.Virtual = HTTPS -> InsecureCase(SecureCase(st, e), e)
      [] e.res.Virtual = HTTPANDS -> InsecureCase(SecureCase(st, e), e)
      [] e.res.Virtual = HTTP -> InsecureCase(st, e)
      [] OTHER -> st

\* the body of the loop over the records: switch res.Virtual
WAFSwitch(st, e) ==
    CASE e.res.Virtual = HTTPS -> SecureCase(st, e)
      [] e.res.Virtual = HTTPANDS -> InsecureCase(SecureCase(st, e), e)
      [] e.res.Virtual = HTTP -> InsecureCase(st, e)
      [] OTHER -> st

RECURSIVE WAFLoop(_, _)
WAFLoop(st, order) ==
    IF order = <<>> THEN st
    ELSE WAFLoop(WAFSwitch(st, Head(order)), Tail(order))

\* mutant: the default rule is put in front of the rules
AddDefaultRule_Prepend(app, name, touched) ==
    IF touched /\ IsPolicy(app, name)
    THEN [app EXCEPT ![name] = addWAFDisableAction([@ EXCEPT !.Rules = <<wafDisableRule>> \o @])]
    ELSE app

\* mutant: the default rule is appended only where there is none yet
AddDefaultRule_IfMissing(app, name, touched) ==
    IF touched /\ IsPolicy(app, name)
    THEN [app EXCEPT ![name] = addWAFDisableAction(
            [@ EXCEPT !.Rules = IF \E i \in DOMAIN @ : @[i].Name = WAFDisableRuleName
                                THEN @ ELSE Append(@, wafDisableRule)])]
    ELSE app

\* mutant: the isSecureWAF / isInsecureWAF guard is dropped
AddDefaultRule_Always(app, name, touched) ==
    IF IsPolicy(app, name)
    THEN [app EXCEPT ![name] = addWAFDisableAction([@ EXCEPT !.Rules = Append(@, wafDisableRule)])]
    ELSE app

\* append the default rule, then fill in the disable actions
AddDefaultRule(app, name, touched) ==
    IF touched /\ IsPolicy(app, name)
    THEN [app EXCEPT ![name] = addWAFDisableAction([@ EXCEPT !.Rules = Append(@, wafDisableRule)])]
    ELSE app

\* the whole function, for one iteration order of am.IntF5Res;
\* the result keeps the two locals for the properties to read
processF5ResourcesForAS3(app, order) ==
    LET st == WAFLoop([app |-> app, isSecureWAF |-> FALSE, isInsecureWAF |-> FALSE], order)
        a1 == AddDefaultRule(st.app, SecurePolicyName, st.isSecureWAF)
        a2 == AddDefaultRule(a1, InsecurePolicyName, st.isInsecureWAF)
    IN [st EXCEPT !.app = a2]

(***************************************************************************)
(* TLS attachment: processProfilesForAS3                                   *)
(***************************************************************************)
ResourceTypeRoute == "route"
ResourceTypeIngress == "ingress"
ResourceTypeOther == "configmap"

CustomProfileClient == "clientside"
CustomProfileServer == "serverside"
CustomProfileAll == "all"

NilPointer == [nil |-> TRUE, BigIP |-> ""]

\* &as3ResourcePointer{BigIP: s}
Pointer(s) == [nil |-> FALSE, BigIP |-> s]

\* fmt.Sprintf("/%v/%v", partition, name)
Sprintf(partition, name) == "/" \o partition \o "/" \o name

\* the deterministic name the base stage files a frontend's Service under
as3FormatedString(svcName, resourceType) == "svc_" \o svcName

updateVirtualToHTTPS(svc) == [svc EXCEPT !.class = "Service_HTTPS"]

\* sharedApp[name].(*as3Service)
IsService(app, name) ==
    Has(app, name) /\ app[name].class \in {"Service_HTTP", "Service_HTTPS"}

\* mutant: a server-context profile sets ClientTLS but does not upgrade
IngressProfileStep_NoUpgrade(st, profile) ==
    IF profile.Partition = "Common"
    THEN CASE profile.Context = CustomProfileClient ->
                LET serverTLS == Append(st.serverTLS, Pointer(Sprintf(profile.Partition, profile.Name)))
                IN [svc |-> updateVirtualToHTTPS([st.svc EXCEPT !.ServerTLS = serverTLS]),
                    serverTLS |-> serverTLS]
           [] profile.Context = CustomProfileServer ->
                [st EXCEPT !.svc.ClientTLS = Pointer(Sprintf(profile.Partition, profile.Name))]
           [] OTHER -> st
    ELSE st

\* mutant: the pointer is appended to svc.ServerTLS, not to the local list
IngressProfileStep_AppendToSvc(st, profile) ==
    IF profile.Partition = "Common"
    THEN CASE profile.Context = CustomProfileClient ->
                LET serverTLS == Append(st.svc.ServerTLS, Pointer(Sprintf(profile.Partition, profile.Name)))
                IN [svc |-> updateVirtualToHTTPS([st.svc EXCEPT !.ServerTLS = serverTLS]),
                    serverTLS |-> serverTLS]
           [] profile.Context = CustomProfileServer ->
                [st EXCEPT !.svc = updateVirtualToHTTPS(
                    [@ EXCEPT !.ClientTLS = Pointer(Sprintf(profile.Partition, profile.Name))])]
           [] OTHER -> st
    ELSE st

\* one iteration of the loop over virtual.Profiles; st = [svc, serverTLS]
IngressProfileStep(st, profile) ==
    IF profile.Partition = "Common"
    THEN CASE profile.Context = CustomProfileClient ->
                LET serverTLS == Append(st.serverTLS, Pointer(Sprintf(profile.Partition, profile.Name)))
                IN [svc |-> updateVirtualToHTTPS([st.svc EXCEPT !.ServerTLS = serverTLS]),
                    serverTLS |-> serverTLS]
           [] profile.Context = CustomProfileServer ->
                [st EXCEPT !.svc = updateVirtualToHTTPS(
                    [@ EXCEPT !.ClientTLS = Pointer(Sprintf(profile.Partition, profile.Name))])]
           [] OTHER -> st
    ELSE st

RECURSIVE IngressLoop(_, _)
IngressLoop(st, profiles) ==
    IF profiles = <<>> THEN st
    ELSE IngressLoop(IngressProfileStep(st, Head(profiles)), Tail(profiles))

processIngressTLSProfilesForAS3(virtual, svc) ==
    IngressLoop([svc |-> svc, serverTLS |-> <<>>], virtual.Profiles).svc

\* mutant: ClientTLS is set only while it is nil (the first one wins)
RouteProfileStep_FirstWins(st, e) ==
    CASE e.key.Context = CustomProfileClient ->
            LET serverTLS == Append(st.serverTLS, Pointer(e.val))
            IN [svc |-> updateVirtualToHTTPS([st.svc EXCEPT !.ServerTLS = serverTLS]),
                serverTLS |-> serverTLS]
      [] e.key.Context = CustomProfileServer ->
            [st EXCEPT !.svc = updateVirtualToHTTPS(
                [@ EXCEPT !.ClientTLS = IF @.nil THEN Pointer(e.val) ELSE @])]
      [] OTHER -> st

\* mutant: the two contexts are taken for each other
RouteProfileStep_Swapped(st, e) ==
    CASE e.key.Context = CustomProfileServer ->
            LET serverTLS == Append(st.serverTLS, Pointer(e.val))
            IN [svc |-> updateVirtualToHTTPS([st.svc EXCEPT !.ServerTLS = serverTLS]),
                serverTLS |-> serverTLS]
      [] e.key.Context = CustomProfileClient ->
            [st EXCEPT !.svc = updateVirtualToHTTPS([@ EXCEPT !.ClientTLS = Pointer(e.val)])]
      [] OTHER -> st

\* one iteration of the loop over metadata.RouteProfs; e = [key, val]
RouteProfileStep(st, e) ==
    CASE e.key.Context = CustomProfileClient ->
            LET serverTLS == Append(st.serverTLS, Pointer(e.val))
            IN [svc |-> updateVirtualToHTTPS([st.svc EXCEPT !.ServerTLS = serverTLS]),
                serverTLS |-> serverTLS]
      [] e.key.Context = CustomProfileServer ->
            [st EXCEPT !.svc = updateVirtualToHTTPS([@ EXCEPT !.ClientTLS = Pointer(e.val)])]
      [] OTHER -> st

RECURSIVE RouteLoop(_, _)
RouteLoop(st, order) ==
    IF order = <<>> THEN st
    ELSE RouteLoop(RouteProfileStep(st, Head(order)), Tail(order))

\* order: the order in which the range loop visits metadata.RouteProfs
processRouteTLSProfilesForAS3(order, svc) ==
    RouteLoop([svc |-> svc, serverTLS |-> <<>>], order).svc

\* mutant: a frontend without a Service object gets one
ProfilesStep_Create(st, svcName, cfg, order) ==
    LET name == as3FormatedString(svcName, cfg.MetaData.ResourceType)
        app == IF IsService(st.app, name) THEN st.app
               ELSE Put(st.app, name, [class |-> "Service_HTTP", ClientTLS |-> NilPointer, ServerTLS |-> <<>>])
    IN CASE cfg.MetaData.ResourceType = ResourceTypeRoute ->
                [st EXCEPT !.app = [app EXCEPT ![name] = processRouteTLSProfilesForAS3(order, @)]]
         [] cfg.MetaData.ResourceType = ResourceTypeIngress ->
                [st EXCEPT !.app = [app EXCEPT ![name] = processIngressTLSProfilesForAS3(cfg.Virtual, @)]]
         [] OTHER -> [st EXCEPT !.app = app, !.warnings = @ \cup {svcName}]

\* mutant: the default case reads the profile list as the Ingress case does
ProfilesStep_DefaultAsIngress(st, svcName, cfg, order) ==
    LET name == as3FormatedString(svcName, cfg.MetaData.ResourceType)
    IN IF IsService(st.app, name)
       THEN CASE cfg.MetaData.ResourceType = ResourceTypeRoute ->
                    [st EXCEPT !.app[name] = processRouteTLSProfilesForAS3(order, @)]
              [] OTHER ->
                    [st EXCEPT !.app[name] = processIngressTLSProfilesForAS3(cfg.Virtual, @),
                               !.warnings = @ \cup {svcName}]
       ELSE st

\* the body of the loop over am.Resources.RsMap; st = [app, warnings]
ProfilesStep(st, svcName, cfg, order) ==
    LET name == as3FormatedString(svcName, cfg.MetaData.ResourceType)
    IN IF IsService(st.app, name)
       THEN CASE cfg.MetaData.ResourceType = ResourceTypeRoute ->
                    [st EXCEPT !.app[name] = processRouteTLSProfilesForAS3(order, @)]
              [] cfg.MetaData.ResourceType = ResourceTypeIngress ->
                    [st EXCEPT !.app[name] = processIngressTLSProfilesForAS3(cfg.Virtual, @)]
              [] OTHER -> [st EXCEPT !.warnings = @ \cup {svcName}]
       ELSE st

RECURSIVE ProfilesLoop(_, _, _, _)
ProfilesLoop(st, rsMap, rsOrder, orders) ==
    IF rsOrder = <<>> THEN st
    ELSE ProfilesLoop(ProfilesStep(st, Head(rsOrder), rsMap[Head(rsOrder)], orders[Head(rsOrder)]),
                      rsMap, Tail(rsOrder), orders)

\* rsOrder: the order the range loop visits RsMap in; orders: per frontend,
\* the order its TLS entries are visited in
processProfilesForAS3(app, rsMap, rsOrder, orders) ==
    ProfilesLoop([app |-> app, warnings |-> {}], rsMap, rsOrder, orders)

\* the orders a frontend's TLS entries can be visited in: any order of the
\* RouteProfs map for a Route, the list order for everything else
EntryOrders(cfg) ==
    IF cfg.MetaData.ResourceType = ResourceTypeRoute
    THEN Orderings(cfg.MetaData.RouteProfs)
    ELSE {cfg.Virtual.Profiles}

(***************************************************************************)
(* Declaration assembly: prepareAS3ResourceConfig                          *)
(***************************************************************************)
\* controlObj.initDefault(am.userAgent)
controlObj == [class |-> "Controls", userAgent |-> "k8s-bigip-ctlr"]

\* adc.initDefault(DEFAULT_PARTITION), with the shared application filled in
as3ADC(partition, app) == Put(<<>>, partition, [class |-> "Tenant", Shared |-> app])

\* the default partition is empty when its name is unset
isDefaultAS3PartitionEmpty(cfg, partition) == partition = ""

\* mutant: the override is kept whatever the partition
prepareAS3ResourceConfig_KeepOverride(cfg, adc, partition) ==
    [cfg EXCEPT !.adc = Put(adc, "controls", controlObj)]

\* adc: what generateAS3ResourceDeclaration returned
prepareAS3ResourceConfig(cfg, adc, partition) ==
    LET c1 == [cfg EXCEPT !.adc = Put(adc, "controls", controlObj)]
    IN IF isDefaultAS3PartitionEmpty(c1, partition)
       THEN [c1 EXCEPT !.overrideConfigmap.Data = ""]
       ELSE c1

(***************************************************************************)
(* Inputs                                                                  *)
(***************************************************************************)
RuleIds == {"r1", "r2"}

Groups == {"g1", "g2"}

Virtuals == {HTTP, HTTPS, HTTPANDS, OtherVirtual}

\* the rules the base stage builds: r1 forwards, r2 has no action yet
BaseRule(n) == [Name |-> n, Actions |-> IF n = "r1" THEN <<forwardAction>> ELSE <<>>]

\* rule lists the base stage builds: distinct names, in any order
InitRules ==
    {rs \in SeqsUpTo({BaseRule(n) : n \in RuleIds}, MaxRules) :
        \A i, j \in DOMAIN rs : rs[i].Name = rs[j].Name => i = j}

Policy(rules) == [class |-> "Endpoint_Policy", Rules |-> rules]

\* am.IntF5Res as the set of its entries; a (group, record) key occurs once
RecEntries == [grp : Groups, rec : RuleIds, res : [Virtual : Virtuals]]

IntF5ResMaps(n) ==
    {m \in SUBSET RecEntries :
        /\ Cardinality(m) <= n
        /\ \A a, b \in m : (a.grp = b.grp /\ a.rec = b.rec) => a = b}

Frontends == {"f1", "f2"}

ProfileUniverse ==
    [Partition : {"Common"}, Name : {"p1", "p2"}, Context : {CustomProfileClient, CustomProfileServer}]
    \cup {[Partition |-> "k8s", Name |-> "p1", Context |-> CustomProfileClient],
          [Partition |-> "Common", Name |-> "p1", Context |-> CustomProfileAll]}

RouteEntryUniverse ==
    {[key |-> [Name |-> n, Context |-> c], val |-> Sprintf("Common", n)] :
        n \in {"p1", "p2"}, c \in {CustomProfileClient, CustomProfileServer}}
    \cup {[key |-> [Name |-> "p1", Context |-> CustomProfileAll], val |-> Sprintf("Common", "p1")]}

RouteProfMaps(n) == {m \in SUBSET RouteEntryUniverse : Cardinality(m) <= n}

Cfg(type, routeProfs, profiles) ==
    [MetaData |-> [ResourceType |-> type, RouteProfs |-> routeProfs],
     Virtual |-> [Profiles |-> profiles]]

RouteCfgs(n) == {Cfg(ResourceTypeRoute, m, <<>>) : m \in RouteProfMaps(n)}

IngressCfgs(n) == {Cfg(ResourceTypeIngress, {}, ps) : ps \in SeqsUpTo(ProfileUniverse, n)}

OtherCfgs ==
    {Cfg(ResourceTypeOther, {}, <<[Partition |-> "Common", Name |-> "p1", Context |-> CustomProfileClient]>>)}

Cfgs(n) == RouteCfgs(n) \cup IngressCfgs(n) \cup OtherCfgs

\* the stores the TLS stage is run on: f1 a Route and f2 an Ingress, or either
\* of an unsupported kind
RsMaps(n) ==
    {m \in [Frontends -> Cfgs(n)] :
        /\ m["f1"] \in RouteCfgs(n) \cup OtherCfgs
        /\ m["f2"] \in IngressCfgs(n) \cup OtherCfgs}

\* Service objects as the base stage leaves them
BaseServices ==
    {[class |-> "Service_HTTP", ClientTLS |-> NilPointer, ServerTLS |-> <<>>],
     [class |-> "Service_HTTPS", ClientTLS |-> Pointer(Sprintf("Common", "base")),
      ServerTLS |-> <<Pointer(Sprintf("Common", "base"))>>]}

\* the trees the base stage can leave for the frontends of rsMap: each
\* frontend's Service present or not
ServiceTrees(rsMap) ==
    UNION {[{as3FormatedString(f, rsMap[f].MetaData.ResourceType) : f \in fs} -> BaseServices] :
            fs \in SUBSET DOMAIN rsMap}

PolicyTrees(rules) ==
    UNION {[ns -> {Policy(r) : r \in rules}] : ns \in SUBSET {SecurePolicyName, InsecurePolicyName}}

\* union of two trees over disjoint names
Merge(a, b) == [n \in DOMAIN a \cup DOMAIN b |-> IF n \in DOMAIN a THEN a[n] ELSE b[n]]

Overrides == {""} \cup {"override" \o ToString(i) : i \in 1..(MaxOverrides - 1)}

EmptyCfg(data) == [adc |-> <<>>, overrideConfigmap |-> [Data |-> data]]

(***************************************************************************)
(* Stages as steps of the state machine                                    *)
(***************************************************************************)
ProfilesCore ==
    \E rsOrder \in Orderings(DOMAIN RsMap) :
      \E orders \in {o \in [DOMAIN RsMap -> UNION {EntryOrders(RsMap[f]) : f \in DOMAIN RsMap}] :
                        \A f \in DOMAIN RsMap : o[f] \in EntryOrders(RsMap[f])} :
        LET st == processProfilesForAS3(sharedApp, RsMap, rsOrder, orders)
        IN /\ sharedApp' = st.app
           /\ warnings' = st.warnings
           /\ preApp' = sharedApp
           /\ profOrder' = orders

F5ResCore ==
    \E order \in Orderings(IntF5Res) :
        LET st == processF5ResourcesForAS3(sharedApp, order)
        IN /\ sharedApp' = st.app
           /\ isSecureWAF' = st.isSecureWAF
           /\ isInsecureWAF' = st.isInsecureWAF
           /\ preApp' = sharedApp
           /\ recOrder' = order
           /\ pass' = pass + 1

(***************************************************************************)
(* SpecTLS: the TLS attachment stage on the trees the base stage leaves    *)
(***************************************************************************)
InitTLS ==
    /\ DEFAULT_PARTITION = "k8s"
    /\ RsMap \in RsMaps(MaxProfiles)
    /\ IntF5Res = {}
    /\ sharedApp \in ServiceTrees(RsMap)
    /\ routeCfg = EmptyCfg("")
    /\ result = EmptyCfg("")
    /\ pc = "profiles"
    /\ pass = 0
    /\ preApp = sharedApp
    /\ isSecureWAF = FALSE
    /\ isInsecureWAF = FALSE
    /\ recOrder = <<>>
    /\ profOrder = <<>>
    /\ warnings = {}

ProcessProfiles ==
    /\ pc = "profiles"
    /\ ProfilesCore
    /\ pc' = "f5res"
    /\ UNCHANGED <<DEFAULT_PARTITION, RsMap, IntF5Res, routeCfg, result, pass, isSecureWAF,
                   isInsecureWAF, recOrder>>

NextTLS == ProcessProfiles

SpecTLS == InitTLS /\ [][NextTLS]_vars

(***************************************************************************)
(* SpecWAF: WAF injection, run up to MaxPasses times on one tree           *)
(***************************************************************************)
InitWAF ==
    /\ DEFAULT_PARTITION = "k8s"
    /\ RsMap = <<>>
    /\ IntF5Res \in IntF5ResMaps(MaxRecs)
    /\ sharedApp \in PolicyTrees(InitRules)
    /\ routeCfg = EmptyCfg("")
    /\ result = EmptyCfg("")
    /\ pc = "f5res"
    /\ pass = 0
    /\ preApp = sharedApp
    /\ isSecureWAF = FALSE
    /\ isInsecureWAF = FALSE
    /\ recOrder = <<>>
    /\ profOrder = <<>>
    /\ warnings = {}

ProcessF5Resources ==
    /\ pc = "f5res"
    /\ pass < MaxPasses
    /\ F5ResCore
    /\ UNCHANGED <<DEFAULT_PARTITION, RsMap, IntF5Res, routeCfg, result, pc, profOrder, warnings>>

NextWAF == ProcessF5Resources

SpecWAF == InitWAF /\ [][NextWAF]_vars

(***************************************************************************)
(* Spec: one whole pass of prepareAS3ResourceConfig, stage by stage        *)
(***************************************************************************)
Init ==
    /\ DEFAULT_PARTITION \in {"", "k8s"}
    /\ RsMap \in [{"f1"} -> Cfgs(1)]
    /\ IntF5Res \in IntF5ResMaps(1)
    /\ sharedApp = <<>>
    /\ routeCfg \in {EmptyCfg(d) : d \in Overrides}
    /\ result = EmptyCfg("")
    /\ pc = "base"
    /\ pass = 0
    /\ preApp = sharedApp
    /\ isSecureWAF = FALSE
    /\ isInsecureWAF = FALSE
    /\ recOrder = <<>>
    /\ profOrder = <<>>
    /\ warnings = {}

\* processResourcesForAS3 and processCustomProfilesForAS3: the Service of
\* each frontend, and the two policies, present or not
processResourcesForAS3 ==
    /\ pc = "base"
    /\ sharedApp' \in {Merge(a, b) : a \in ServiceTrees(RsMap),
                                     b \in PolicyTrees({<<BaseRule("r1")>>})}
    /\ preApp' = sharedApp
    /\ pc' = "profiles"
    /\ UNCHANGED <<DEFAULT_PARTITION, RsMap, IntF5Res, routeCfg, result, pass, isSecureWAF,
                   isInsecureWAF, recOrder, profOrder, warnings>>

\* processF5ResourcesForAS3 as the last stage of generateAS3ResourceDeclaration
GenerateF5Resources ==
    /\ pc = "f5res"
    /\ F5ResCore
    /\ pc' = "assemble"
    /\ UNCHANGED <<DEFAULT_PARTITION, RsMap, IntF5Res, routeCfg, result, profOrder, warnings>>

\* the return of generateAS3ResourceDeclaration and the rest of
\* prepareAS3ResourceConfig
Assemble ==
    /\ pc = "assemble"
    /\ result' = prepareAS3ResourceConfig(routeCfg, as3ADC(DEFAULT_PARTITION, sharedApp),
                                          DEFAULT_PARTITION)
    /\ pc' = "done"
    /\ UNCHANGED <<DEFAULT_PARTITION, RsMap, IntF5Res, sharedApp, routeCfg, pass, preApp,
                   isSecureWAF, isInsecureWAF, recOrder, profOrder, warnings>>

Next ==
    \/ processResourcesForAS3
    \/ ProcessProfiles
    \/ GenerateF5Resources
    \/ Assemble

Spec == Init /\ [][Next]_vars

(***************************************************************************)
(* Properties of WAF injection (checked under SpecWAF)                     *)
(***************************************************************************)
PolicyNames == {SecurePolicyName, InsecurePolicyName}

\* the flag processF5ResourcesForAS3 kept for the policy
Touched(name) == IF name = SecurePolicyName THEN isSecureWAF ELSE isInsecureWAF

\* the exposure value v selects the policy
Selects(v, name) ==
    IF name = SecurePolicyName THEN v \in {"https", "all"} ELSE v \in {"http", "all"}

\* the records of am.IntF5Res whose exposure selects the policy
SelectingRecs(name) == {e \in IntF5Res : Selects(e.res.Virtual, name)}

WAFCount(rule) == Cardinality({i \in DOMAIN rule.Actions : rule.Actions[i].Type = "waf"})

IsEnable(a) == a.Type = "waf" /\ a.Enabled = "true"

IsDisable(a) == a.Type = "waf" /\ a.Enabled = "false"

IsDropOnRequest(a) == a.Type = "drop" /\ a.Event = "request"

IsTrailing(rule) == rule.Name = "openshift_route_waf_disable"

TrailingCount(rules) == Cardinality({i \in DOMAIN rules : IsTrailing(rules[i])})

HasRule(rules, n) == \E i \in DOMAIN rules : rules[i].Name = n

\* C1 (as claimed): after WAF injection every rule of every touched policy,
\* the trailing rule included, holds exactly one WAF action.
C1_ExactlyOneWAF ==
    pass >= 1 =>
        \A name \in PolicyNames :
            (Has(sharedApp, name) /\ Touched(name)) =>
                \A i \in DOMAIN sharedApp[name].Rules : WAFCount(sharedApp[name].Rules[i]) = 1

\* C1 (amended): after WAF injection every rule of every touched policy holds
\* at least one WAF action; it holds exactly one when the rule carried no WAF
\* action before the pass and at most one record selecting the policy names it.
C1_AtLeastOneWAF ==
    pass >= 1 =>
        \A name \in PolicyNames :
            (Has(sharedApp, name) /\ Touched(name)) =>
                \A i \in DOMAIN sharedApp[name].Rules :
                    LET rule == sharedApp[name].Rules[i]
                        old == i \in DOMAIN preApp[name].Rules
                    IN /\ WAFCount(rule) >= 1
                       /\ ( /\ old => WAFCount(preApp[name].Rules[i]) = 0
                            /\ Cardinality({e \in SelectingRecs(name) : e.rec = rule.Name}) <= 1 )
                          => WAFCount(rule) = 1

\* a touched policy with a rule that got its one WAF-enable action, a rule that
\* got its one WAF-disable action, and the trailing rule
C1_Witness ==
    /\ pass = 1
    /\ \E name \in PolicyNames :
        /\ Has(sharedApp, name) /\ Touched(name)
        /\ Len(sharedApp[name].Rules) = 3
        /\ \E i, j \in 1..2 :
            /\ \E k \in DOMAIN sharedApp[name].Rules[i].Actions : IsEnable(sharedApp[name].Rules[i].Actions[k])
            /\ \E k \in DOMAIN sharedApp[name].Rules[j].Actions : IsDisable(sharedApp[name].Rules[j].Actions[k])
            /\ WAFCount(sharedApp[name].Rules[i]) = 1
            /\ WAFCount(sharedApp[name].Rules[j]) = 1
        /\ WAFCount(sharedApp[name].Rules[3]) = 1

\* C2: after one WAF injection pass every touched policy holds the trailing
\* rule exactly once, as its last rule, after every rule with a WAF-enable
\* action, and the trailing rule's actions are drop-on-request, WAF-disable.
C2_TrailingRuleLast ==
    pass = 1 =>
        \A name \in PolicyNames :
            (Has(sharedApp, name) /\ Touched(name)) =>
                LET rules == sharedApp[name].Rules
                    last == rules[Len(rules)]
                IN /\ Len(rules) >= 1
                   /\ TrailingCount(rules) = 1
                   /\ IsTrailing(last)
                   /\ Len(last.Actions) = 2
                   /\ IsDropOnRequest(last.Actions[1])
                   /\ IsDisable(last.Actions[2])
                   /\ \A i \in DOMAIN rules :
                        (\E k \in DOMAIN rules[i].Actions : IsEnable(rules[i].Actions[k])) => i < Len(rules)

\* a touched policy whose trailing rule follows a rule with a WAF-enable action
C2_Witness ==
    /\ pass = 1
    /\ \E name \in PolicyNames :
        /\ Has(sharedApp, name) /\ Touched(name)
        /\ Len(sharedApp[name].Rules) >= 2
        /\ IsTrailing(sharedApp[name].Rules[Len(sharedApp[name].Rules)])
        /\ \E i \in DOMAIN sharedApp[name].Rules :
             \E k \in DOMAIN sharedApp[name].Rules[i].Actions : IsEnable(sharedApp[name].Rules[i].Actions[k])

\* the policy was touched by an earlier run: it holds a trailing rule
AlreadyTouched(app, name) ==
    Has(app, name) /\ \E i \in DOMAIN app[name].Rules : IsTrailing(app[name].Rules[i])

\* C3 (as claimed): a second run on an already-touched policy, the exposure
\* records being the same, leaves the number of rules of the policy unchanged.
C3_RuleCountUnchanged ==
    pass >= 2 =>
        \A name \in PolicyNames :
            AlreadyTouched(preApp, name) =>
                Len(sharedApp[name].Rules) = Len(preApp[name].Rules)

\* C3 (amended): a second run on an already-touched policy, the exposure
\* records being the same, appends one more trailing rule: the number of rules
\* grows by exactly one, and the policy holds one trailing rule per run.
C3_OneMoreTrailingRule ==
    pass >= 2 =>
        \A name \in PolicyNames :
            AlreadyTouched(preApp, name) =>
                /\ Len(sharedApp[name].Rules) = Len(preApp[name].Rules) + 1
                /\ IsTrailing(sharedApp[name].Rules[Len(sharedApp[name].Rules)])
                /\ TrailingCount(sharedApp[name].Rules) = pass

\* a policy touched by the first run, after the second run
C3_Witness ==
    /\ pass = 2
    /\ \E name \in PolicyNames :
        /\ AlreadyTouched(preApp, name)
        /\ TrailingCount(sharedApp[name].Rules) = 2

\* some record selects the policy, and every such record names a rule the
\* policy does not hold
OnlyMissingRules(name) ==
    /\ Has(preApp, name)
    /\ SelectingRecs(name) # {}
    /\ \A e \in SelectingRecs(name) : ~HasRule(preApp[name].Rules, e.rec)

\* C4 (as claimed): a record naming a rule the selected policy does not hold
\* is a no-op; when such records are the only ones for the policy, the policy
\* after the pass equals the policy before it.
C4_MissingRuleNoOp ==
    pass = 1 =>
        \A name \in PolicyNames :
            OnlyMissingRules(name) => sharedApp[name] = preApp[name]

\* C4 (amended): a record naming a rule the selected policy does not hold
\* creates no rule of that name and adds no WAF-enable action, but it still
\* marks the policy touched: when such records are the only ones for the
\* policy, the policy after the pass is the policy before it with a
\* WAF-disable action appended to every rule and the trailing rule appended.
C4_MissingRuleStillTouches ==
    pass = 1 =>
        \A name \in PolicyNames :
            OnlyMissingRules(name) =>
                LET old == preApp[name].Rules
                    new == sharedApp[name].Rules
                IN /\ Touched(name)
                   /\ Len(new) = Len(old) + 1
                   /\ \A e \in SelectingRecs(name) : ~HasRule(new, e.rec)
                   /\ \A i \in DOMAIN new : \A k \in DOMAIN new[i].Actions : ~IsEnable(new[i].Actions[k])
                   /\ \A i \in DOMAIN old :
                        /\ new[i].Name = old[i].Name
                        /\ Len(new[i].Actions) = Len(old[i].Actions) + 1
                        /\ SubSeq(new[i].Actions, 1, Len(old[i].Actions)) = old[i].Actions
                        /\ IsDisable(new[i].Actions[Len(new[i].Actions)])
                   /\ IsTrailing(new[Len(new)])
                   /\ Len(new[Len(new)].Actions) = 2
                   /\ IsDropOnRequest(new[Len(new)].Actions[1])
                   /\ IsDisable(new[Len(new)].Actions[2])

\* a policy holding r1 alone, selected only by a record that names r2
C4_Witness ==
    /\ pass = 1
    /\ \E name \in PolicyNames :
        /\ OnlyMissingRules(name)
        /\ Len(preApp[name].Rules) = 1
        /\ Len(sharedApp[name].Rules) = 2

\* C5: a policy no exposure record selects is not marked touched and is the
\* same after WAF injection as before it: same rules, same order, same
\* actions, no trailing rule.
C5_UntouchedUnmodified ==
    pass >= 1 =>
        \A name \in PolicyNames :
            (Has(preApp, name) /\ SelectingRecs(name) = {}) =>
                /\ ~Touched(name)
                /\ Has(sharedApp, name)
                /\ sharedApp[name] = preApp[name]

\* an unselected policy with a rule that has no WAF action, next to a policy
\* the same pass touched
C5_Witness ==
    /\ pass = 1
    /\ \E name, other \in PolicyNames :
        /\ Has(preApp, name) /\ SelectingRecs(name) = {}
        /\ \E i \in DOMAIN sharedApp[name].Rules : WAFCount(sharedApp[name].Rules[i]) = 0
        /\ other # name /\ Has(sharedApp, other) /\ Touched(other)

\* C6: an HTTP-and-HTTPS record gets both handlings: each of the two policies
\* that exists is marked touched, has the WAF-enable action on the rule the
\* record names (where the policy holds it), and ends with the trailing rule.
C6_BothHandlings ==
    pass = 1 =>
        \A e \in IntF5Res :
            e.res.Virtual = "all" =>
                \A name \in PolicyNames :
                    Has(preApp, name) =>
                        LET old == preApp[name].Rules
                            new == sharedApp[name].Rules
                        IN /\ Touched(name)
                           /\ Len(new) = Len(old) + 1
                           /\ IsTrailing(new[Len(new)])
                           /\ \A i \in DOMAIN old :
                                old[i].Name = e.rec =>
                                    \E k \in DOMAIN new[i].Actions : IsEnable(new[i].Actions[k])

\* one HTTP-and-HTTPS record naming a rule both policies hold
C6_Witness ==
    /\ pass = 1
    /\ \E e \in IntF5Res :
        /\ e.res.Virtual = "all"
        /\ IntF5Res = {e}
        /\ \A name \in PolicyNames :
            /\ Has(preApp, name)
            /\ HasRule(preApp[name].Rules, e.rec)
            /\ \E i \in DOMAIN sharedApp[name].Rules :
                /\ sharedApp[name].Rules[i].Name = e.rec
                /\ \E k \in DOMAIN sharedApp[name].Rules[i].Actions : IsEnable(sharedApp[name].Rules[i].Actions[k])

(***************************************************************************)
(* Properties of TLS attachment (checked under SpecTLS)                    *)
(***************************************************************************)
ProfilesDone == pc = "f5res"

\* the name the frontend's Service is filed under
ServiceName(f) == "svc_" \o f

TypeOf(f) == RsMap[f].MetaData.ResourceType

\* frontends of the two supported kinds whose Service object exists
Attachable(f) ==
    /\ f \in DOMAIN RsMap
    /\ TypeOf(f) \in {"route", "ingress"}
    /\ Has(preApp, ServiceName(f))

\* the context of a TLS entry, of a profile list or of a RouteProfs map
ContextOf(f, e) == IF TypeOf(f) = "route" THEN e.key.Context ELSE e.Context

IsTLSEntry(f, e) == ContextOf(f, e) \in {"clientside", "serverside"}

\* an entry the stage writes: client or server context, and for an Ingress
\* the shared partition
Eligible(f, e) ==
    /\ IsTLSEntry(f, e)
    /\ TypeOf(f) = "ingress" => e.Partition = "Common"

\* the pointer an entry yields
PointerOf(f, e) ==
    IF TypeOf(f) = "route" THEN e.val
    ELSE IF e.Name = "p1" THEN "/Common/p1" ELSE "/Common/p2"

\* the frontend's entries in the order the stage visited them
Visited(f) == profOrder[f]

\* C7 (as claimed): after TLS attachment the Service of every Route or Ingress
\* frontend with a Service object and at least one TLS association entry has
\* protocol HTTPS, and no Service went from HTTPS back to HTTP.
C7_AnyEntryHTTPS ==
    ProfilesDone =>
        \A f \in DOMAIN RsMap :
            Attachable(f) =>
                /\ (\E i \in DOMAIN Visited(f) : IsTLSEntry(f, Visited(f)[i]))
                        => sharedApp[ServiceName(f)].class = "Service_HTTPS"
                /\ preApp[ServiceName(f)].class = "Service_HTTPS"
                        => sharedApp[ServiceName(f)].class = "Service_HTTPS"

\* C7 (amended): after TLS attachment the Service of every Route or Ingress
\* frontend with a Service object and at least one eligible TLS entry (client
\* or server context and, for an Ingress, partition Common) has protocol
\* HTTPS; with no eligible entry the protocol is what it was; no Service went
\* from HTTPS back to HTTP.
C7_EligibleEntryHTTPS ==
    ProfilesDone =>
        \A f \in DOMAIN RsMap :
            Attachable(f) =>
                /\ (\E i \in DOMAIN Visited(f) : Eligible(f, Visited(f)[i]))
                        => sharedApp[ServiceName(f)].class = "Service_HTTPS"
                /\ ~(\E i \in DOMAIN Visited(f) : Eligible(f, Visited(f)[i]))
                        => sharedApp[ServiceName(f)].class = preApp[ServiceName(f)].class
                /\ preApp[ServiceName(f)].class = "Service_HTTPS"
                        => sharedApp[ServiceName(f)].class = "Service_HTTPS"

\* a Route and an Ingress, both HTTP before the stage and HTTPS after it
C7_Witness ==
    /\ ProfilesDone
    /\ \E f, g \in DOMAIN RsMap :
        /\ Attachable(f) /\ TypeOf(f) = "route"
        /\ Attachable(g) /\ TypeOf(g) = "ingress"
        /\ preApp[ServiceName(f)].class = "Service_HTTP"
        /\ preApp[ServiceName(g)].class = "Service_HTTP"
        /\ sharedApp[ServiceName(f)].class = "Service_HTTPS"
        /\ sharedApp[ServiceName(g)].class = "Service_HTTPS"

IsCommonClient(p) == p.Partition = "Common" /\ p.Context = "clientside"

\* C8: after TLS attachment the ServerTLS of an Ingress frontend with N >= 1
\* client-context profiles in partition Common holds exactly N pointers
\* "/Common/name", one per such profile, in the order of the profile list.
C8_ServerTLSPerClientProfile ==
    ProfilesDone =>
        \A f \in DOMAIN RsMap :
            (Attachable(f) /\ TypeOf(f) = "ingress") =>
                LET clients == SelectSeq(RsMap[f].Virtual.Profiles, IsCommonClient)
                    tls == sharedApp[ServiceName(f)].ServerTLS
                IN Len(clients) >= 1 =>
                    /\ Len(tls) = Len(clients)
                    /\ \A i \in DOMAIN clients : tls[i].BigIP = PointerOf(f, clients[i])

\* an Ingress with two client profiles in Common, p2 before p1, whose Service
\* held a ServerTLS entry of the base stage
C8_Witness ==
    /\ ProfilesDone
    /\ \E f \in DOMAIN RsMap :
        /\ Attachable(f) /\ TypeOf(f) = "ingress"
        /\ Len(preApp[ServiceName(f)].ServerTLS) = 1
        /\ Len(SelectSeq(RsMap[f].Virtual.Profiles, IsCommonClient)) = 2
        /\ Len(sharedApp[ServiceName(f)].ServerTLS) = 2
        /\ sharedApp[ServiceName(f)].ServerTLS[1].BigIP = "/Common/p2"
        /\ sharedApp[ServiceName(f)].ServerTLS[2].BigIP = "/Common/p1"

\* the positions of the eligible server-context entries in the visiting order
ServerPositions(f) ==
    {i \in DOMAIN Visited(f) :
        Eligible(f, Visited(f)[i]) /\ ContextOf(f, Visited(f)[i]) = "serverside"}

Max(S) == CHOOSE x \in S : \A y \in S : y <= x

\* C9: after TLS attachment the Service of a frontend with two or more
\* eligible server-context profiles holds one ClientTLS pointer, the one of
\* the server-context profile the stage visited last.
C9_LastServerProfileWins ==
    ProfilesDone =>
        \A f \in DOMAIN RsMap :
            (Attachable(f) /\ Cardinality(ServerPositions(f)) >= 2) =>
                /\ ~sharedApp[ServiceName(f)].ClientTLS.nil
                /\ sharedApp[ServiceName(f)].ClientTLS.BigIP
                        = PointerOf(f, Visited(f)[Max(ServerPositions(f))])

\* a Route and an Ingress with two server-context profiles each, whose
\* ClientTLS is the second one visited and not the first
C9_Witness ==
    /\ ProfilesDone
    /\ \E f, g \in DOMAIN RsMap :
        /\ Attachable(f) /\ TypeOf(f) = "route"
        /\ Attachable(g) /\ TypeOf(g) = "ingress"
        /\ \A h \in {f, g} :
            /\ Cardinality(ServerPositions(h)) = 2
            /\ sharedApp[ServiceName(h)].ClientTLS.BigIP = PointerOf(h, Visited(h)[2])
            /\ sharedApp[ServiceName(h)].ClientTLS.BigIP # PointerOf(h, Visited(h)[1])

(***************************************************************************)
(* Properties of declaration assembly (checked under Spec)                 *)
(***************************************************************************)
\* C10: when the default partition is empty and the pass was handed a
\* non-empty override, the returned configuration has an empty override and
\* still carries the generated declaration with its controls header.
C10_OverrideSuppressed ==
    (pc = "done" /\ DEFAULT_PARTITION = "" /\ routeCfg.overrideConfigmap.Data # "") =>
        /\ result.overrideConfigmap.Data = ""
        /\ Has(result.adc, "controls")
        /\ result.adc["controls"].class = "Controls"
        /\ Has(result.adc, DEFAULT_PARTITION)
        /\ result.adc[DEFAULT_PARTITION].Shared = sharedApp

\* a finished pass on an empty partition that was handed an override
C10_Witness ==
    /\ pc = "done"
    /\ DEFAULT_PARTITION = ""
    /\ routeCfg.overrideConfigmap.Data # ""
    /\ result.overrideConfigmap.Data = ""
    /\ DOMAIN sharedApp # {}

(***************************************************************************)
(* The two TLS paths compared, and determinism (checked under SpecTLS)     *)
(***************************************************************************)
\* what a TLS entry says: its context and the reference it stands for
RouteSays(e) == [Context |-> e.key.Context, Name |-> e.key.Name, Ref |-> e.val]

IngressSays(p) ==
    [Context |-> p.Context, Name |-> p.Name,
     Ref |-> IF p.Name = "p1" THEN "/Common/p1" ELSE "/Common/p2"]

\* the Route f and the Ingress g carry equivalent TLS data: the profile list
\* names partition Common only, has no entry twice, and holds the contexts
\* and references of the Route's RouteProfs map
Equivalent(f, g) ==
    LET ps == RsMap[g].Virtual.Profiles
    IN /\ TypeOf(f) = "route" /\ TypeOf(g) = "ingress"
       /\ \A i \in DOMAIN ps : ps[i].Partition = "Common"
       /\ \A i, j \in DOMAIN ps : ps[i] = ps[j] => i = j
       /\ {IngressSays(ps[i]) : i \in DOMAIN ps} = {RouteSays(e) : e \in RsMap[f].MetaData.RouteProfs}

\* both Services exist and were equal before the stage
SameStart(f, g) ==
    /\ Attachable(f) /\ Attachable(g)
    /\ preApp[ServiceName(f)] = preApp[ServiceName(g)]

CountOf(f, ctx) == Cardinality({e \in RsMap[f].MetaData.RouteProfs : e.key.Context = ctx})

\* C11 (as claimed): for equivalent inputs the Route path and the Ingress path
\* leave the same ClientTLS, the same ServerTLS in the same order and the same
\* protocol on the Service object.
C11_PathsIdentical ==
    ProfilesDone =>
        \A f, g \in DOMAIN RsMap :
            (Equivalent(f, g) /\ SameStart(f, g)) =>
                sharedApp[ServiceName(f)] = sharedApp[ServiceName(g)]

\* C11 (amended): for equivalent inputs the two paths leave the same protocol,
\* the same ServerTLS entries in some order, and a ClientTLS that is in both
\* nil or in both a server-context reference of the input; ServerTLS is the
\* same in the same order when there is at most one client-context entry, and
\* ClientTLS is the same when there is at most one server-context entry.
C11_PathsAgreeUpToOrder ==
    ProfilesDone =>
        \A f, g \in DOMAIN RsMap :
            (Equivalent(f, g) /\ SameStart(f, g)) =>
                LET a == sharedApp[ServiceName(f)]
                    b == sharedApp[ServiceName(g)]
                    refs == {e.val : e \in {x \in RsMap[f].MetaData.RouteProfs : x.key.Context = "serverside"}}
                IN /\ a.class = b.class
                   /\ Len(a.ServerTLS) = Len(b.ServerTLS)
                   /\ Range(a.ServerTLS) = Range(b.ServerTLS)
                   /\ a.ClientTLS.nil = b.ClientTLS.nil
                   /\ refs # {} => (a.ClientTLS.BigIP \in refs /\ b.ClientTLS.BigIP \in refs)
                   /\ CountOf(f, "clientside") <= 1 => a.ServerTLS = b.ServerTLS
                   /\ CountOf(f, "serverside") <= 1 => a.ClientTLS = b.ClientTLS

\* a Route and an Ingress with the same client-context and server-context
\* entry, both HTTP before the stage and equal after it
C11_Witness ==
    /\ ProfilesDone
    /\ \E f, g \in DOMAIN RsMap :
        /\ Equivalent(f, g) /\ SameStart(f, g)
        /\ CountOf(f, "clientside") = 1 /\ CountOf(f, "serverside") = 1
        /\ preApp[ServiceName(f)].class = "Service_HTTP"
        /\ sharedApp[ServiceName(f)] = sharedApp[ServiceName(g)]
        /\ sharedApp[ServiceName(f)].class = "Service_HTTPS"
        /\ Len(sharedApp[ServiceName(f)].ServerTLS) = 1
        /\ ~sharedApp[ServiceName(f)].ClientTLS.nil

\* every choice of orders the TLS stage can make on its maps
ProfileOrders ==
    {o \in [DOMAIN RsMap -> UNION {EntryOrders(RsMap[f]) : f \in DOMAIN RsMap}] :
        \A f \in DOMAIN RsMap : o[f] \in EntryOrders(RsMap[f])}

\* C12: synthesis is deterministic: the tree a stage left is the tree it
\* leaves for every order in which RsMap, a Route's RouteProfs and
\* am.IntF5Res can be iterated.
C12_Deterministic ==
    /\ (ProfilesDone /\ pass = 0) =>
            \A rsOrder \in Orderings(DOMAIN RsMap) : \A o \in ProfileOrders :
                processProfilesForAS3(preApp, RsMap, rsOrder, o).app = sharedApp
    /\ pass >= 1 =>
            \A order \in Orderings(IntF5Res) :
                processF5ResourcesForAS3(preApp, order).app = sharedApp

(***************************************************************************)
(* Frontends the TLS stage skips (checked under SpecTLS)                   *)
(***************************************************************************)
\* the frontend has an entry the stage writes
HasEligible(f) == \E i \in DOMAIN Visited(f) : Eligible(f, Visited(f)[i])

\* the frontend's kind is neither Route nor Ingress
Unsupported(f) == TypeOf(f) \notin {"route", "ingress"}

\* C13: TLS attachment creates no Service object: the tenant application has
\* the same names after the stage as before it, a frontend whose Service name
\* maps to no Service object is skipped (no object, no diagnostic), and the
\* frontends that do have a Service object are still processed, a Route or
\* Ingress with an eligible entry becoming HTTPS.
C13_NeverCreatesService ==
    ProfilesDone =>
        /\ DOMAIN sharedApp = DOMAIN preApp
        /\ \A f \in DOMAIN RsMap :
            /\ ~Has(preApp, ServiceName(f)) =>
                    /\ ~Has(sharedApp, ServiceName(f))
                    /\ f \notin warnings
            /\ (Attachable(f) /\ HasEligible(f)) =>
                    sharedApp[ServiceName(f)].class = "Service_HTTPS"

\* one frontend without a Service object, skipped, next to one whose Service
\* the same pass upgraded from HTTP to HTTPS
C13_Witness ==
    /\ ProfilesDone
    /\ \E f, g \in DOMAIN RsMap :
        /\ ~Has(preApp, ServiceName(f)) /\ ~Has(sharedApp, ServiceName(f))
        /\ Visited(f) # <<>>
        /\ Attachable(g) /\ HasEligible(g)
        /\ preApp[ServiceName(g)].class = "Service_HTTP"
        /\ sharedApp[ServiceName(g)].class = "Service_HTTPS"

\* C14 (as claimed): every frontend whose kind is neither Route nor Ingress is
\* skipped with a diagnostic: its Service object, if any, is unchanged, a
\* diagnostic is emitted for it, and the other frontends are processed.
C14_UnsupportedAlwaysWarned ==
    ProfilesDone =>
        \A f \in DOMAIN RsMap :
            /\ Unsupported(f) =>
                    /\ f \in warnings
                    /\ Has(preApp, ServiceName(f)) =>
                            /\ Has(sharedApp, ServiceName(f))
                            /\ sharedApp[ServiceName(f)] = preApp[ServiceName(f)]
            /\ (Attachable(f) /\ HasEligible(f)) =>
                    sharedApp[ServiceName(f)].class = "Service_HTTPS"

\* C14 (amended): a frontend whose kind is neither Route nor Ingress is
\* skipped: its Service object, if any, is unchanged; a diagnostic is emitted
\* for it exactly when its Service object exists, and none when it does not;
\* no diagnostic is emitted for a Route or an Ingress; the other frontends
\* are processed.
C14_UnsupportedWarnedIfService ==
    ProfilesDone =>
        /\ warnings = {f \in DOMAIN RsMap : Unsupported(f) /\ Has(preApp, ServiceName(f))}
        /\ \A f \in DOMAIN RsMap :
            /\ (Unsupported(f) /\ Has(preApp, ServiceName(f))) =>
                    /\ Has(sharedApp, ServiceName(f))
                    /\ sharedApp[ServiceName(f)] = preApp[ServiceName(f)]
            /\ (Unsupported(f) /\ ~Has(preApp, ServiceName(f))) =>
                    ~Has(sharedApp, ServiceName(f))
            /\ (Attachable(f) /\ HasEligible(f)) =>
                    sharedApp[ServiceName(f)].class = "Service_HTTPS"

\* a frontend of an unsupported kind with a Service object and a client
\* profile in its list, skipped with a diagnostic, next to an Ingress the same
\* pass upgraded
C14_Witness ==
    /\ ProfilesDone
    /\ \E f, g \in DOMAIN RsMap :
        /\ Unsupported(f) /\ Has(preApp, ServiceName(f))
        /\ Visited(f) # <<>>
        /\ f \in warnings
        /\ sharedApp[ServiceName(f)] = preApp[ServiceName(f)]
        /\ Attachable(g) /\ HasEligible(g)
        /\ preApp[ServiceName(g)].class = "Service_HTTP"
        /\ sharedApp[ServiceName(g)].class = "Service_HTTPS"

(***************************************************************************)
(* What one exposure record changes (checked under SpecWAF)                *)
(***************************************************************************)
\* the locals of processF5ResourcesForAS3 after the first k records of the
\* pass, in the order the pass visited them
StateAfter(k) ==
    WAFLoop([app |-> preApp, isSecureWAF |-> FALSE, isInsecureWAF |-> FALSE], SubSeq(recOrder, 1, k))

\* the flag for the policy in the locals st
Flag(st, name) == IF name = SecurePolicyName THEN st.isSecureWAF ELSE st.isInsecureWAF

\* the record left the policy and its flag as they were
Untouched(before, after, name) ==
    /\ Flag(after, name) = Flag(before, name)
    /\ Has(after.app, name) = Has(before.app, name)
    /\ Has(before.app, name) => after.app[name] = before.app[name]

\* C15: a record changes only the policies its exposure value selects: an
\* HTTPS record leaves the insecure policy and its flag as they were, an HTTP
\* record leaves the secure policy and its flag as they were, and a record with
\* any other value (not HTTP, HTTPS, HTTP-and-HTTPS) leaves both as they were;
\* the flags after the last record are the flags the pass ended with.
C15_RecordChangesOnlySelected ==
    pass >= 1 =>
        /\ \A k \in 1..Len(recOrder) :
            LET v == recOrder[k].res.Virtual
            IN \A name \in PolicyNames :
                ~Selects(v, name) => Untouched(StateAfter(k - 1), StateAfter(k), name)
        /\ \A name \in PolicyNames : Touched(name) = Flag(StateAfter(Len(recOrder)), name)

\* a pass over an HTTPS record and a record of an unsupported value, both
\* policies present and holding the rule the HTTPS record names: the secure
\* policy is touched, the insecure one is what it was
C15_Witness ==
    /\ pass = 1
    /\ \A name \in PolicyNames : Has(preApp, name)
    /\ \E a, b \in IntF5Res :
        /\ a.res.Virtual = "https"
        /\ b.res.Virtual \notin {"http", "https", "all"}
        /\ \A name \in PolicyNames : HasRule(preApp[name].Rules, a.rec)
    /\ isSecureWAF /\ ~isInsecureWAF
    /\ sharedApp["openshift_insecure_routes"] = preApp["openshift_insecure_routes"]
    /\ sharedApp["openshift_secure_routes"] # preApp["openshift_secure_routes"]

\* C16: a policy receives the trailing rule and the WAF-disable fill-in
\* exactly when it exists and at least one record has an exposure value that
\* selects it, whether or not the rule the record names is in the policy; a
\* policy that was absent stays absent.
C16_TouchedIffSelected ==
    pass >= 1 =>
        /\ DOMAIN sharedApp = DOMAIN preApp
        /\ \A name \in PolicyNames :
            /\ Touched(name) <=> (Has(preApp, name) /\ SelectingRecs(name) # {})
            /\ (Has(preApp, name) /\ SelectingRecs(name) # {}) =>
                    LET old == preApp[name].Rules
                        new == sharedApp[name].Rules
                    IN /\ Len(new) = Len(old) + 1
                       /\ IsTrailing(new[Len(new)])
                       /\ \A i \in DOMAIN new : WAFCount(new[i]) >= 1
            /\ (Has(preApp, name) /\ SelectingRecs(name) = {}) =>
                    sharedApp[name] = preApp[name]

\* the insecure policy, selected only by a record naming a rule it does not
\* hold, received the trailing rule; the secure policy, selected by a record,
\* is absent before and after
C16_Witness ==
    /\ pass = 1
    /\ OnlyMissingRules("openshift_insecure_routes")
    /\ isInsecureWAF
    /\ IsTrailing(sharedApp["openshift_insecure_routes"].Rules[Len(sharedApp["openshift_insecure_routes"].Rules)])
    /\ ~Has(preApp, "openshift_secure_routes")
    /\ ~Has(sharedApp, "openshift_secure_routes")
    /\ SelectingRecs("openshift_secure_routes") # {}
    /\ ~isSecureWAF

====
